---- MODULE Spec2Model ----
(***************************************************************************)
(* Model of Service/src/service.py: the post-processing pipeline that      *)
(* turns the outputs of a box detector and a mask predictor into a         *)
(* cropped, edge-softened image.                                           *)
(*                                                                         *)
(* Number representation.                                                  *)
(*   - confidences and the thresholds compared with them, the mask         *)
(*     cleaning threshold r and min_blur are in hundredths (0.98 is 98);   *)
(*   - relative coordinates and the margin k are fixed-point multiples of  *)
(*     1/RelUnit (RelUnit = 9600, so x/384 and 0.05 are both exact);       *)
(*   - pixel values and alpha values are the 8-bit integers 0..255.        *)
(* An image is a record [mode, size, data, alpha]: size = <<width,height>>,*)
(* data is one scanline of colour values (the rows of a sample image are   *)
(* equal), alpha is None or one scanline of alpha values.                  *)
(* A Python optional is None (the empty tuple) or Some(v) (a 1-tuple).     *)
(***************************************************************************)
EXTENDS Integers, Sequences, FiniteSets, TLC

VARIABLES
    pc,               \* position inside one call of get_jewellery_image_
    images_original,  \* the batch handed to get_jewellery_image_
    config,           \* the keyword arguments of the call
    det_out,          \* what the detection model answers for the batch
    seg_out,          \* what the segmentation model answers for the batch
    model_calls,      \* log of model invocations: <<[model, batch]>>
    predictions,      \* local of the running inference function
    rboxes,           \* jewellery_detection_get_rx_ry's result list
    cropped_images,   \* jewellery_detect_crop_mask's local list
    detect_acc,       \* jewellery_detect_crop_mask's local list
    masks,            \* jewellery_mask's result list
    predict,          \* the list of result dicts
    idx,              \* loop index of the running loop (1-based)
    returned,         \* None, or Some(list) once the call has returned
    arg,              \* pure function under study: the drawn input
    ret               \* pure function under study: None or Some(result)

vars == <<pc, images_original, config, det_out, seg_out, model_calls,
          predictions, rboxes, cropped_images, detect_acc, masks, predict,
          idx, returned, arg, ret>>

pipeline_vars == <<pc, images_original, config, det_out, seg_out, model_calls,
                   predictions, rboxes, cropped_images, detect_acc, masks,
                   predict, idx, returned>>

(***************************************************************************)
(* Bounds                                                                  *)
(***************************************************************************)
MaxImages == 2
MaxDet == 3

(***************************************************************************)
(* Python values and builtins                                              *)
(***************************************************************************)
None == <<>>
Some(v) == <<v>>

Min(a, b) == IF a <= b THEN a ELSE b
Max(a, b) == IF a >= b THEN a ELSE b

\* min([...]) / max([...]) over a non-empty collection
MinOf(S) == CHOOSE m \in S : \A e \in S : m <= e
MaxOf(S) == CHOOSE m \in S : \A e \in S : m >= e

\* round(num/den) as Python rounds a float: halves go to the even neighbour
RoundHalfEven(num, den) ==
    LET q == num \div den
        rem == num % den
    IN  IF 2 * rem < den THEN q
        ELSE IF 2 * rem > den THEN q + 1
        ELSE IF q % 2 = 0 THEN q ELSE q + 1

(***************************************************************************)
(* Program constants and defaults                                          *)
(***************************************************************************)
STEPS_FOR_THRESHOLD == <<80, 70, 60, 50>>
model_shape == <<384, 384>>
RelUnit == 25 * 384
k_default == 480
threshold_detect == 98
threshold_segmentation == 99


(***************************************************************************)
(* jewellery_detection_get_rx_ry, the body of its loop for one image       *)
(* A prediction is [boxes |-> <<box>>, scores |-> <<score>>], both of one   *)
(* length, box = <<x1, y1, x2, y2>> in the model's input pixel space.      *)
(***************************************************************************)

\* the value every ladder step compares the scores with, were it taken from the step
LadderCompareValue_PerStep(threshold) == threshold

\* line 134: pred_scores_numpy > max(STEPS_FOR_THRESHOLD), whatever the step
LadderCompareValue(threshold) ==
    MaxOf({STEPS_FOR_THRESHOLD[j] : j \in DOMAIN STEPS_FOR_THRESHOLD})

\* lines 133-137: for threshold in steps: count; break when positive
RECURSIVE LadderLoop(_, _, _)
LadderLoop(pred_scores, steps, ind_max) ==
    IF steps = <<>> THEN ind_max
    ELSE LET threshold == Head(steps)
             list_ind == {j \in DOMAIN pred_scores :
                              pred_scores[j] > LadderCompareValue(threshold)}
             n == Cardinality(list_ind)
         IN  IF n > 0 THEN n ELSE LadderLoop(pred_scores, Tail(steps), n)

\* lines 133-139
IndMax(pred_scores) ==
    LET ind_max == LadderLoop(pred_scores, STEPS_FOR_THRESHOLD, 0)
    IN  IF ind_max = 0 THEN 1 ELSE ind_max

\* lines 142-147: union bounding box of pred_boxs_numpy[:ind_max]
MergeBoxes(pred_boxs, ind_max) ==
    LET pred_boxs_good == SubSeq(pred_boxs, 1, Min(ind_max, Len(pred_boxs)))
        P == {pred_boxs_good[j] : j \in DOMAIN pred_boxs_good}
    IN  << MinOf({p[1] : p \in P}), MinOf({p[2] : p \in P}),
           MaxOf({p[3] : p \in P}), MaxOf({p[4] : p \in P}) >>

\* lines 149-152: x by model_shape[0], y by model_shape[1] (0-based in Python)
Relative(best, shape) ==
    << (best[1] * RelUnit) \div shape[1], (best[2] * RelUnit) \div shape[2],
       (best[3] * RelUnit) \div shape[1], (best[4] * RelUnit) \div shape[2] >>

\* the margin applied without clamping to the unit square
ExpandBox_NoClamp(r, k) ==
    IF k > 0 THEN << r[1] - k, r[2] - k, r[3] + k, r[4] + k >> ELSE r

\* lines 154-158
ExpandBox(r, k) ==
    IF k > 0
    THEN << Max(r[1] - k, 0), Max(r[2] - k, 0),
            Min(r[3] + k, RelUnit), Min(r[4] + k, RelUnit) >>
    ELSE r

\* lines 124-160 for a prediction that holds at least one score
GetRxRyBody(prediction, shape, k) ==
    LET pred_score == prediction.scores[1]
        ind_max == IndMax(prediction.scores)
        best == MergeBoxes(prediction.boxes, ind_max)
    IN  [ rbox |-> ExpandBox(Relative(best, shape), k),
          pred_score |-> pred_score,
          ind_max |-> ind_max,
          best |-> best ]

\* a hardened variant: an empty prediction yields a full-frame box, score 0
GetRxRyImage_Hardened(prediction, shape, k) ==
    IF prediction.scores = <<>>
    THEN [ raised |-> FALSE,
           value |-> [ rbox |-> <<0, 0, RelUnit, RelUnit>>, pred_score |-> 0,
                       ind_max |-> 0, best |-> <<0, 0, shape[1], shape[2]>> ] ]
    ELSE [ raised |-> FALSE, value |-> GetRxRyBody(prediction, shape, k) ]

\* lines 123-160: pred_scores[0] of an empty score list raises (line 128)
GetRxRyImage(prediction, shape, k) ==
    IF prediction.scores = <<>>
    THEN [ raised |-> TRUE, value |-> None ]
    ELSE [ raised |-> FALSE, value |-> GetRxRyBody(prediction, shape, k) ]

(***************************************************************************)
(* Images                                                                  *)
(***************************************************************************)

\* image.crop((x1, y1, x2, y2)): the box is rounded to whole pixels
crop(image, x1, y1, x2, y2) ==
    [ mode |-> image.mode,
      size |-> << x2 - x1, y2 - y1 >>,
      data |-> SubSeq(image.data, x1 + 1, x2),
      alpha |-> IF image.alpha = None THEN None
                ELSE Some(SubSeq(image.alpha[1], x1 + 1, x2)) ]

\* lines 173-178: the relative box times the image's own size
crop_image(image, rbox) ==
    crop(image,
         RoundHalfEven(image.size[1] * rbox[1], RelUnit),
         RoundHalfEven(image.size[2] * rbox[2], RelUnit),
         RoundHalfEven(image.size[1] * rbox[3], RelUnit),
         RoundHalfEven(image.size[2] * rbox[4], RelUnit))

\* mask.resize(size): each output pixel takes the input pixel under its centre
resize(image, size) ==
    [ mode |-> image.mode,
      size |-> size,
      data |-> [ x \in 1..size[1] |->
                   image.data[ (((2 * x - 1) * image.size[1]) \div (2 * size[1])) + 1 ] ],
      alpha |-> None ]

\* q.putalpha(mask): the mask's values become the image's alpha band
putalpha(image, mask) ==
    [ mode |-> "RGBA", size |-> image.size, data |-> image.data,
      alpha |-> Some(mask.data) ]

\* image.convert('RGB'): the colour bands are kept, the alpha band is dropped
convert_RGB(image) ==
    [ mode |-> "RGB", size |-> image.size, data |-> image.data, alpha |-> None ]

RECURSIVE SumSeq(_)
SumSeq(s) == IF s = <<>> THEN 0 ELSE Head(s) + SumSeq(Tail(s))

\* rgb.filter(ImageFilter.GaussianBlur(radius)): radius 0 changes nothing; a
\* radius as wide as the crop pulls every pixel to the mean of its scanline
GaussianBlur(image, radius) ==
    IF radius = 0 \/ image.data = <<>> THEN image
    ELSE [ image EXCEPT !.data =
             [ x \in DOMAIN image.data |-> SumSeq(image.data) \div Len(image.data) ] ]

\* Image.composite(image1, image2, mask): image1 where the mask is 255,
\* image2 where it is 0, a blend in between
composite(image1, image2, mask) ==
    [ mode |-> image1.mode, size |-> image1.size,
      data |-> [ x \in DOMAIN image1.data |->
                   (image1.data[x] * mask.data[x]
                      + image2.data[x] * (255 - mask.data[x])) \div 255 ],
      alpha |-> None ]

(***************************************************************************)
(* clean_image_with_mask                                                   *)
(* CleanAlpha is the transform of one alpha value, r and min_blur in       *)
(* hundredths. x*255 is computed exactly, in hundredths; the store into    *)
(* the uint8 channel truncates. Where the exact product is a whole number  *)
(* the float product may fall just below it: down chooses that outcome.    *)
(***************************************************************************)

\* the lower clip left out: np.clip(x, 0, 1)
CleanAlpha_NoFloor(a, r, min_blur, down) ==
    LET x == 100 * a + 255 * (r - 50)
        c == Min(Max(x, 0), 255 * 100)
    IN  (c \div 100) % 256

\* lines 230-232
CleanAlpha(a, r, min_blur, down) ==
    LET x == 100 * a + 255 * (r - 50)
        lo == 255 * min_blur
        hi == 255 * 100
        c == Min(Max(x, lo), hi)
        whole == c \div 100
    IN  IF down /\ c % 100 = 0 /\ c > lo /\ c < hi
        THEN (whole - 1) % 256
        ELSE whole % 256

\* lines 225-234: r is None or Some(threshold); image is RGBA
clean_image_with_mask(image, r, min_blur, down) ==
    IF r = None THEN image
    ELSE [ image EXCEPT !.alpha =
             Some([ x \in DOMAIN image.alpha[1] |->
                      CleanAlpha(image.alpha[1][x], r[1], min_blur, down) ]) ]


(***************************************************************************)
(* get_jewellery_image_, lines 308-318: the composited image of one result *)
(***************************************************************************)

\* the blend mask taken from the cleaned alpha band instead of the raw mask
BlendMask_CleanAlpha(q_clean, mask, size) ==
    [ mode |-> "L", size |-> size, data |-> q_clean.alpha[1], alpha |-> None ]

\* line 316: the blend mask is the raw mask, resized to the crop
BlendMask(q_clean, mask, size) == resize(mask, size)

\* lines 308-316
SegmentedImage(cropped_image, mask, r, min_blur, gaussian_blur, down) ==
    LET q == putalpha(cropped_image, resize(mask, cropped_image.size))
        q_clean == clean_image_with_mask(q, r, min_blur, down)
        rgb == convert_RGB(q_clean)
        blurred == GaussianBlur(rgb, gaussian_blur)
    IN  composite(rgb, blurred, BlendMask(q_clean, mask, cropped_image.size))

\* d[key] = v on a Python dict
DictSet(d, key, v) == (key :> v) @@ d

(***************************************************************************)
(* Inputs of the pipeline                                                  *)
(***************************************************************************)

\* the i-th image of a batch: 4 x 2 pixels, RGB, its content its own
Img(i) ==
    [ mode |-> "RGB", size |-> <<4, 2>>,
      data |-> [ x \in 1..4 |-> (40 * x + 100 * i) % 256 ],
      alpha |-> None ]

\* what the detection model may answer for one image
DetectionSamples ==
    { [ boxes |-> <<>>, scores |-> <<>> ],
      [ boxes |-> << <<96, 96, 288, 288>> >>, scores |-> <<50>> ],
      [ boxes |-> << <<96, 48, 288, 336>>, <<192, 96, 384, 384>> >>,
        scores |-> <<99, 90>> ] }

MaskA == [ mode |-> "L", size |-> <<2, 2>>, data |-> <<255, 30>>, alpha |-> None ]
MaskB == [ mode |-> "L", size |-> <<2, 2>>, data |-> <<120, 255>>, alpha |-> None ]

\* what the segmentation model may answer for one image
SegmentationSamples ==
    { [ masks |-> <<>>, scores |-> <<>> ],
      [ masks |-> <<MaskA>>, scores |-> <<50>> ],
      [ masks |-> <<MaskB, MaskA>>, scores |-> <<100, 30>> ] }

CleanThresholds == {60, 90}
MinBlurs == {0, 10}
BlurRadii == {0, 20}

Configs ==
    [ k : {k_default},
      threshold_detect : {threshold_detect},
      threshold_segmentation : {threshold_segmentation},
      threshold_clean_mask : {None} \cup {Some(r) : r \in CleanThresholds},
      show_bad_results : BOOLEAN,
      min_blur : MinBlurs,
      gaussian_blur : BlurRadii ]

(***************************************************************************)
(* One call of get_jewellery_image_                                        *)
(***************************************************************************)
Init ==
    /\ pc = "start"
    /\ \E n \in 1..MaxImages :
          /\ images_original = [ i \in 1..n |-> Img(i) ]
          /\ det_out \in [ 1..n -> DetectionSamples ]
          /\ seg_out \in [ 1..n -> SegmentationSamples ]
    /\ config \in Configs
    /\ model_calls = <<>>
    /\ predictions = <<>>
    /\ rboxes = <<>>
    /\ cropped_images = <<>>
    /\ detect_acc = <<>>
    /\ masks = <<>>
    /\ predict = <<>>
    /\ idx = 1
    /\ returned = None
    /\ arg = None
    /\ ret = None

\* lines 301, 248, 114-121: the detection model runs once on the whole batch
CallDetectionModel ==
    /\ pc = "start"
    /\ model_calls' = Append(model_calls,
                             [ model |-> "detection", batch |-> Len(images_original) ])
    /\ predictions' = det_out
    /\ rboxes' = <<>>
    /\ idx' = 1
    /\ pc' = "rx_ry"
    /\ UNCHANGED <<images_original, config, det_out, seg_out, cropped_images,
                   detect_acc, masks, predict, returned, arg, ret>>

\* lines 123-162: one pass of the loop over the predictions
GetRxRyStep ==
    /\ pc = "rx_ry"
    /\ idx <= Len(predictions)
    /\ LET o == GetRxRyImage(predictions[idx], model_shape, config.k)
       IN  IF o.raised
           THEN /\ pc' = "error"
                /\ UNCHANGED <<rboxes, idx>>
           ELSE /\ rboxes' = Append(rboxes, <<o.value.rbox, o.value.pred_score>>)
                /\ pc' = IF idx = Len(predictions) THEN "crop" ELSE "rx_ry"
                /\ idx' = IF idx = Len(predictions) THEN 1 ELSE idx + 1
    /\ UNCHANGED <<images_original, config, det_out, seg_out, model_calls,
                   predictions, cropped_images, detect_acc, masks, predict,
                   returned, arg, ret>>

\* the crop loop with the segmentation model invoked on each crop as it is made
CropStep_PerImageMask ==
    /\ pc = "crop"
    /\ idx <= Len(rboxes)
    /\ cropped_images' = Append(cropped_images,
                                crop_image(images_original[idx], rboxes[idx][1]))
    /\ detect_acc' = Append(detect_acc, rboxes[idx][2])
    /\ model_calls' = Append(model_calls, [ model |-> "mask", batch |-> 1 ])
    /\ pc' = IF idx = Len(rboxes) THEN "mask_model" ELSE "crop"
    /\ idx' = IF idx = Len(rboxes) THEN 1 ELSE idx + 1
    /\ UNCHANGED <<images_original, config, det_out, seg_out,
                   predictions, rboxes, masks, predict, returned, arg, ret>>

\* lines 253-258: one pass of the crop loop
CropStep ==
    /\ pc = "crop"
    /\ idx <= Len(rboxes)
    /\ cropped_images' = Append(cropped_images,
                                crop_image(images_original[idx], rboxes[idx][1]))
    /\ detect_acc' = Append(detect_acc, rboxes[idx][2])
    /\ pc' = IF idx = Len(rboxes) THEN "mask_model" ELSE "crop"
    /\ idx' = IF idx = Len(rboxes) THEN 1 ELSE idx + 1
    /\ UNCHANGED <<images_original, config, det_out, seg_out, model_calls,
                   predictions, rboxes, masks, predict, returned, arg, ret>>

\* lines 260, 190-199: the segmentation model runs once on all the crops
CallMaskModel ==
    /\ pc = "mask_model"
    /\ model_calls' = Append(model_calls,
                             [ model |-> "mask", batch |-> Len(cropped_images) ])
    /\ predictions' = seg_out
    /\ masks' = <<>>
    /\ idx' = 1
    /\ pc' = "mask"
    /\ UNCHANGED <<images_original, config, det_out, seg_out, rboxes,
                   cropped_images, detect_acc, predict, returned, arg, ret>>

\* lines 201-211: one pass of the loop inside the try; an empty prediction
\* raises at line 203, the handler appends one (None, None) and the loop is over
MaskStep ==
    /\ pc = "mask"
    /\ idx <= Len(predictions)
    /\ IF predictions[idx].scores = <<>>
       THEN /\ masks' = Append(masks, <<None, None>>)
            /\ pc' = "assemble"
            /\ idx' = 1
       ELSE /\ masks' = Append(masks, << Some(predictions[idx].masks[1]),
                                         Some(predictions[idx].scores[1]) >>)
            /\ pc' = IF idx = Len(predictions) THEN "assemble" ELSE "mask"
            /\ idx' = IF idx = Len(predictions) THEN 1 ELSE idx + 1
    /\ UNCHANGED <<images_original, config, det_out, seg_out, model_calls,
                   predictions, rboxes, cropped_images, detect_acc, predict,
                   returned, arg, ret>>

\* lines 262-272: one pass of the loop building the result dicts; masks[k]
\* raises when jewellery_mask returned fewer entries than there are images
AssembleStep ==
    /\ pc = "assemble"
    /\ idx <= Len(rboxes)
    /\ IF idx > Len(masks)
       THEN /\ pc' = "error"
            /\ UNCHANGED <<predict, idx>>
       ELSE /\ predict' = Append(predict,
                   [ cropped_image |-> Some(cropped_images[idx]),
                     detection_accurancy |-> detect_acc[idx],
                     mask |-> masks[idx][1],
                     segmentation_accurancy |-> masks[idx][2] ])
            /\ pc' = IF idx = Len(rboxes) THEN "post" ELSE "assemble"
            /\ idx' = IF idx = Len(rboxes) THEN 1 ELSE idx + 1
    /\ UNCHANGED <<images_original, config, det_out, seg_out, model_calls,
                   predictions, rboxes, cropped_images, detect_acc, masks,
                   returned, arg, ret>>

\* lines 306-326: the body of the if for a result whose mask is not None
PostProcess(res, image_original, down) ==
    LET q_clean == SegmentedImage(res.cropped_image[1], res.mask[1],
                                  config.threshold_clean_mask, config.min_blur,
                                  config.gaussian_blur, down)
        r1 == DictSet(res, "image_segmented", Some(q_clean))
        r2 == IF res.detection_accurancy < config.threshold_detect
                   /\ ~config.show_bad_results
              THEN DictSet(r1, "cropped_image", None) ELSE r1
        r3 == IF res.segmentation_accurancy[1] < config.threshold_segmentation
                   /\ ~config.show_bad_results
              THEN DictSet(r2, "image_segmented", None) ELSE r2
    IN  DictSet(r3, "image_original", Some(image_original))

\* lines 305-326: one pass of the loop over the results
PostStep ==
    /\ pc = "post"
    /\ idx <= Len(images_original)
    /\ \E down \in BOOLEAN :
         predict' = IF predict[idx].mask # None
                    THEN [ predict EXCEPT
                             ![idx] = PostProcess(predict[idx],
                                                  images_original[idx], down) ]
                    ELSE predict
    /\ pc' = IF idx = Len(images_original) THEN "return" ELSE "post"
    /\ idx' = IF idx = Len(images_original) THEN 1 ELSE idx + 1
    /\ UNCHANGED <<images_original, config, det_out, seg_out, model_calls,
                   predictions, rboxes, cropped_images, detect_acc, masks,
                   returned, arg, ret>>

\* line 328
Return ==
    /\ pc = "return"
    /\ returned' = Some(predict)
    /\ pc' = "done"
    /\ UNCHANGED <<images_original, config, det_out, seg_out, model_calls,
                   predictions, rboxes, cropped_images, detect_acc, masks,
                   predict, idx, arg, ret>>

Next ==
    \/ CallDetectionModel
    \/ GetRxRyStep
    \/ CropStep
    \/ CallMaskModel
    \/ MaskStep
    \/ AssembleStep
    \/ PostStep
    \/ Return

Spec == Init /\ [][Next]_vars


(***************************************************************************)
(* Pure functions applied to drawn inputs                                  *)
(***************************************************************************)
Idle ==
    /\ pc = "idle"
    /\ images_original = <<>>
    /\ config = None
    /\ det_out = <<>>
    /\ seg_out = <<>>
    /\ model_calls = <<>>
    /\ predictions = <<>>
    /\ rboxes = <<>>
    /\ cropped_images = <<>>
    /\ detect_acc = <<>>
    /\ masks = <<>>
    /\ predict = <<>>
    /\ idx = 1
    /\ returned = None

\* boxes of the model's 384 x 384 input space, each with x1 <= x2, y1 <= y2
BoxSamples ==
    { <<0, 0, 384, 384>>, <<96, 48, 288, 336>>,
      <<10, 200, 20, 384>>, <<300, 0, 384, 100>> }
ScoreSamples == {20, 79, 80, 85, 90}
\* margins 0, 0.05 and 0.1
MarginSamples == {0, 480, 960}

\* every prediction of at most MaxDet boxes over the samples, in any order
PredictionSamples ==
    UNION { [ boxes : [ 1..n -> BoxSamples ], scores : [ 1..n -> ScoreSamples ] ] :
            n \in 0..MaxDet }

InitDetect ==
    /\ Idle
    /\ arg \in [ prediction : PredictionSamples, k : MarginSamples ]
    /\ ret = None

\* jewellery_detection_get_rx_ry on a batch of one image
ApplyGetRxRy ==
    /\ ret = None
    /\ ret' = Some(GetRxRyImage(arg.prediction, model_shape, arg.k))
    /\ UNCHANGED <<pipeline_vars, arg>>

NextDetect == ApplyGetRxRy

SpecDetect == InitDetect /\ [][NextDetect]_vars

AlphaValues == 0..255
HarnessThresholds == {0, 30, 50, 60, 90, 100}
HarnessMinBlurs == {0, 10, 20, 50, 100}

InitClean ==
    /\ Idle
    /\ arg \in [ alpha : AlphaValues,
                 r : {None} \cup {Some(r) : r \in HarnessThresholds},
                 min_blur : HarnessMinBlurs ]
    /\ ret = None

\* a one-pixel RGBA image whose alpha value is a
OnePixel(a) ==
    [ mode |-> "RGBA", size |-> <<1, 1>>, data |-> <<0>>, alpha |-> Some(<<a>>) ]

\* clean_image_with_mask on a one-pixel image; ret is the cleaned alpha value
ApplyClean ==
    /\ ret = None
    /\ \E down \in BOOLEAN :
         ret' = Some(clean_image_with_mask(OnePixel(arg.alpha), arg.r,
                                           arg.min_blur, down).alpha[1][1])
    /\ UNCHANGED <<pipeline_vars, arg>>

NextClean == ApplyClean

SpecClean == InitClean /\ [][NextClean]_vars


(***************************************************************************)
(* Properties                                                              *)
(***************************************************************************)
AllDetected == \A i \in DOMAIN det_out : det_out[i].scores # <<>>
ZeroDetection == \E i \in DOMAIN det_out : det_out[i].scores = <<>>
SegmentationAbsent(i) == seg_out[i].scores = <<>>

\* C1: a batch whose images all have a detection returns normally with one
\* result per image, in input order; result i has mask and segmentation
\* confidence absent exactly when the segmentation of image i produced no
\* output, and every other image keeps its own mask and confidence.
C1_SegmentationFailureIsolated ==
    (AllDetected /\ pc \in {"done", "error"}) =>
        /\ pc = "done"
        /\ returned # None
        /\ Len(returned[1]) = Len(images_original)
        /\ \A i \in DOMAIN images_original :
             IF SegmentationAbsent(i)
             THEN /\ returned[1][i].mask = None
                  /\ returned[1][i].segmentation_accurancy = None
             ELSE /\ returned[1][i].mask = Some(seg_out[i].masks[1])
                  /\ returned[1][i].segmentation_accurancy = Some(seg_out[i].scores[1])

\* C2: with show_bad_results = False, every returned result whose detection
\* confidence is below threshold_detect has cropped_image None and still
\* reports the confidence, whether or not the image obtained a mask.
C2_DetectionGating ==
    (pc = "done" /\ ~config.show_bad_results) =>
        \A i \in DOMAIN returned[1] :
            det_out[i].scores[1] < config.threshold_detect =>
                /\ returned[1][i].cropped_image = None
                /\ returned[1][i].detection_accurancy = det_out[i].scores[1]

\* C3: every returned result carries the original image of its position and
\* its detection confidence, whatever the gating and whether or not the
\* image obtained a mask.
C3_OriginalAndConfidenceKept ==
    pc = "done" =>
        \A i \in DOMAIN returned[1] :
            /\ "image_original" \in DOMAIN returned[1][i]
            /\ returned[1][i]["image_original"] = Some(images_original[i])
            /\ returned[1][i].detection_accurancy = det_out[i].scores[1]

\* C4: for a non-empty detection nothing is raised, the number of boxes
\* merged is the count of scores above 0.8, or 1 when there is none, and the
\* merged box is the union bounding box of that many leading boxes.
C4_BoxSelection ==
    (ret # None /\ arg.prediction.scores # <<>>) =>
        LET scores == arg.prediction.scores
            boxes == arg.prediction.boxes
            count == Cardinality({j \in DOMAIN scores : scores[j] > 80})
            n == IF count = 0 THEN 1 ELSE count
        IN  /\ ~ret[1].raised
            /\ ret[1].value.ind_max = n
            /\ ret[1].value.best =
                 << MinOf({boxes[j][1] : j \in 1..n}), MinOf({boxes[j][2] : j \in 1..n}),
                    MaxOf({boxes[j][3] : j \in 1..n}), MaxOf({boxes[j][4] : j \in 1..n}) >>

\* the spec's example: scores [0.9, 0.85, 0.3]-like, boxes 0 and 1 are merged
C4_Witness ==
    /\ ret # None
    /\ arg.prediction.scores = <<90, 85, 20>>
    /\ arg.prediction.boxes[1] # arg.prediction.boxes[2]
    /\ ret[1].value.ind_max = 2

\* C5: for a non-empty detection of ordered boxes inside the model's input
\* space and a margin k >= 0, the returned box has its coordinates in [0,1],
\* rx1 <= rx2 and ry1 <= ry2; with k > 0 it is
\* (max(rx1-k,0), max(ry1-k,0), min(rx2+k,1), min(ry2+k,1)), so the
\* full-frame box is returned unchanged.
C5_RelativeBoxRange ==
    (/\ ret # None
     /\ arg.prediction.scores # <<>>
     /\ \A j \in DOMAIN arg.prediction.boxes :
           LET p == arg.prediction.boxes[j]
           IN  0 <= p[1] /\ p[1] <= p[3] /\ p[3] <= 384
               /\ 0 <= p[2] /\ p[2] <= p[4] /\ p[4] <= 384)
    => LET b == ret[1].value.rbox
           best == ret[1].value.best
           k == arg.k
           u == [ c \in 1..4 |-> (best[c] * RelUnit) \div 384 ]
       IN  /\ \A c \in 1..4 : 0 <= b[c] /\ b[c] <= RelUnit
           /\ b[1] <= b[3]
           /\ b[2] <= b[4]
           /\ k > 0 => b = << Max(u[1] - k, 0), Max(u[2] - k, 0),
                              Min(u[3] + k, RelUnit), Min(u[4] + k, RelUnit) >>
           /\ k = 0 => b = << u[1], u[2], u[3], u[4] >>
           /\ best = <<0, 0, 384, 384>> => b = <<0, 0, RelUnit, RelUnit>>

\* the full-frame box with margin 0.1
C5_Witness ==
    /\ ret # None
    /\ arg.prediction.boxes = << <<0, 0, 384, 384>> >>
    /\ arg.k = 960
    /\ ret[1].value.rbox = <<0, 0, RelUnit, RelUnit>>

\* C6: for a fixed min_blur and alpha value, a larger threshold r never gives
\* a larger cleaned alpha value.
C6_ThresholdMonotone ==
    (ret # None /\ arg.r # None) =>
        \A r2 \in HarnessThresholds : \A down \in BOOLEAN :
            r2 > arg.r[1] =>
                CleanAlpha(arg.alpha, r2, arg.min_blur, down) <= ret[1]

\* C7 as stated: with r set, the stored alpha value is at least
\* min_blur * 255 (and at most 255).
C7_FloorAsStated ==
    (ret # None /\ arg.r # None) =>
        /\ 100 * ret[1] >= 255 * arg.min_blur
        /\ ret[1] <= 255

\* C7 as amended: with r set, the stored alpha value is at least
\* min_blur * 255 rounded down to a whole number (the 8-bit store
\* truncates), and at most 255.
C7_FloorTruncated ==
    (ret # None /\ arg.r # None) =>
        /\ ret[1] >= (255 * arg.min_blur) \div 100
        /\ ret[1] <= 255

\* min_blur 0.1 on a transparent pixel: 25.5 is stored as 25
C7_Witness ==
    /\ ret # None
    /\ arg.r = Some(50)
    /\ arg.alpha = 0
    /\ arg.min_blur = 10
    /\ ret[1] = 25

\* C8: when an image of the batch has no detection the call ends in an
\* error: nothing is returned, no result dict is built, the segmentation
\* model is not invoked; while the aggregation loop runs, the image without
\* a detection is still ahead of it, so the loop can end only by raising.
C8_ZeroDetectionFatal ==
    ZeroDetection =>
        /\ pc \in {"start", "rx_ry", "error"}
        /\ returned = None
        /\ predict = <<>>
        /\ cropped_images = <<>>
        /\ \A c \in DOMAIN model_calls : model_calls[c].model # "mask"
        /\ pc = "rx_ry" =>
              /\ predictions = det_out
              /\ \E i \in idx..Len(predictions) : predictions[i].scores = <<>>

\* the second image has no detection, the first one had
C8_Witness ==
    /\ pc = "error"
    /\ Len(det_out) >= 2
    /\ det_out[1].scores # <<>>
    /\ det_out[2].scores = <<>>
    /\ Len(rboxes) = 1

\* C9: the detection model is invoked once on the whole batch, every image
\* is aggregated and then cropped, the segmentation model is invoked once on
\* all the crops, and only then are results built, cleaned, composited and
\* gated; no model is invoked per image or a second time.
C9_StageOrdering ==
    LET n == Len(images_original)
        expected == << [ model |-> "detection", batch |-> n ],
                       [ model |-> "mask", batch |-> n ] >>
    IN  /\ Len(model_calls) <= 2
        /\ \A c \in DOMAIN model_calls : model_calls[c] = expected[c]
        /\ rboxes # <<>> => Len(model_calls) >= 1
        /\ cropped_images # <<>> => Len(rboxes) = n
        /\ Len(model_calls) = 2 => Len(cropped_images) = n
        /\ (masks # <<>> \/ predict # <<>>) => Len(model_calls) = 2
        /\ (\E i \in DOMAIN predict : "image_segmented" \in DOMAIN predict[i])
              => (Len(predict) = n /\ pc \in {"post", "return", "done"})
        /\ pc \in {"return", "done"} => Len(model_calls) = 2

\* a batch of two went through to the end and was composited
C9_Witness ==
    /\ pc = "done"
    /\ Len(images_original) >= 2
    /\ \A i \in DOMAIN predict : "image_segmented" \in DOMAIN predict[i]

\* C10: the composited image does not depend on the mask-cleaning
\* parameters: whatever threshold_clean_mask (None included) and min_blur a
\* run had been given, with the same crop, raw mask, blur radius and gating
\* it would have produced the image_segmented this run produced.
C10_CleaningDoesNotReachComposite ==
    \A i \in DOMAIN predict :
        "image_segmented" \in DOMAIN predict[i] =>
            \A r \in {None} \cup {Some(t) : t \in CleanThresholds} :
            \A min_blur \in MinBlurs : \A down \in BOOLEAN :
                LET other == SegmentedImage(cropped_images[i], masks[i][1][1], r,
                                            min_blur, config.gaussian_blur, down)
                    gated == masks[i][2][1] < config.threshold_segmentation
                             /\ ~config.show_bad_results
                IN  predict[i]["image_segmented"] =
                        IF gated THEN None ELSE Some(other)

\* a run with cleaning switched on whose composite shows the blend
C10_Witness ==
    /\ pc = "done"
    /\ config.threshold_clean_mask = Some(90)
    /\ config.gaussian_blur > 0
    /\ \E i \in DOMAIN predict :
          /\ "image_segmented" \in DOMAIN predict[i]
          /\ predict[i]["image_segmented"] # None
          /\ predict[i]["image_segmented"][1].data # cropped_images[i].data

====
